---- MODULE Spec2Model ----
(***************************************************************************)
(* Small-step model of the hierarchical recursive-descent parser of        *)
(* firstsample.py.  The call stack of the Python methods is explicit: each *)
(* frame records the method, the position inside it and its locals.  One   *)
(* action is one statement group of a method holding at most one eat().    *)
(* The cursor `pos` is 0-based as in the source; TLA+ sequences are        *)
(* 1-based, so the token at the cursor is tokens[pos + 1].                 *)
(***************************************************************************)
EXTENDS Integers, Sequences, FiniteSets, TLC

VARIABLES code, tokens, pos, stack, ret, run, prev

vars == <<code, tokens, pos, stack, ret, run, prev>>

(***************************************************************************)
(* Bounds of the model.                                                    *)
(***************************************************************************)
\* longest input enumerated exhaustively over Vocab
MaxLen == 2
\* iterations of a non-advancing loop whose appended values are still recorded
MaxSpin == 2

(***************************************************************************)
(* TOKENIZER                                                               *)
(***************************************************************************)
\* alternatives of the KEYWORD group of TOKEN_REGEX
KeywordSet ==
    {"class", "endclass", "module", "endmodule", "function", "endfunction",
     "always", "always_ff", "always_comb", "always_latch",
     "input", "output", "inout", "logic", "wire", "int",
     "if", "else", "case", "endcase", "begin", "end"}

\* the character class of the SYMBOL group
SymbolSet ==
    {"(", ")", "[", "]", "{", "}", ";", ",", "=", ":", "+", "-", "*", "/",
     "<", ">", "@", "&", "|", "!"}

\* lexemes matched by the NUMBER group that the inputs use
NumberSet == {"0", "7", "8'hFF"}

\* lexemes matched by the STRING group that the inputs use
StringSet == {"\"s\""}

\* lexemes matched by the SKIP group that the inputs use
SkipSet == {" ", "// c", "/* c */"}

\* lexemes matched by the catch-all OTHER group that the inputs use
OtherSet == {"#", "$"}

\* m.lastgroup of one lexeme: first alternative of TOKEN_REGEX that matches
LastGroup(lex) ==
    IF lex \in KeywordSet THEN "KEYWORD"
    ELSE IF lex \in NumberSet THEN "NUMBER"
    ELSE IF lex \in StringSet THEN "STRING"
    ELSE IF lex \in SymbolSet THEN "SYMBOL"
    ELSE IF lex \in SkipSet THEN "SKIP"
    ELSE IF lex \in OtherSet THEN "OTHER"
    ELSE "IDENT"

\* the tuple ("EOF", "EOF")
EOFTok == [kind |-> "EOF", text |-> "EOF"]

RECURSIVE Matches(_)
\* the loop of tokenize over the matches: SKIP and OTHER produce no token
Matches(lexemes) ==
    IF lexemes = <<>> THEN <<>>
    ELSE LET k == LastGroup(Head(lexemes))
             v == Head(lexemes)
         IN  IF k = "SKIP" \/ k = "OTHER"
             THEN Matches(Tail(lexemes))
             ELSE <<[kind |-> k, text |-> v]>> \o Matches(Tail(lexemes))

tokenizeMut(lexemes) == Matches(lexemes)
\* tokenize(code): the tokens of the matches followed by one EOF token
tokenize(lexemes) == Append(Matches(lexemes), EOFTok)

(***************************************************************************)
(* PARSER: cursor primitives                                               *)
(***************************************************************************)
peekMut(p) == IF p + 1 >= Len(tokens) THEN EOFTok ELSE tokens[p + 2]
\* Parser.peek on a cursor p
peek(p) == IF p >= Len(tokens) THEN EOFTok ELSE tokens[p + 1]

\* the cursor after Parser.eat on a cursor p
eatMut(p) == p + 1
eat(p) == IF p < Len(tokens) THEN p + 1 ELSE p

\* a Python list after append, recorded up to MaxSpin entries past the
\* number of tokens (no terminating parse builds a longer list)
append(s, x) == IF Len(s) < Len(tokens) + MaxSpin THEN Append(s, x) ELSE s

RECURSIVE join(_, _)
\* sep.join(s)
join(sep, s) ==
    IF s = <<>> THEN ""
    ELSE IF Len(s) = 1 THEN s[1]
    ELSE s[1] \o sep \o join(sep, Tail(s))

(***************************************************************************)
(* Call stack                                                              *)
(***************************************************************************)
\* a fresh activation of method fn with its end_tokens; `from` and `span`
\* are history fields: the cursor at the call and the cursor values whose
\* token text the activation (or a callee) stored into the tree
Frame(fn, ends) ==
    [fn |-> fn, pc |-> "start", ends |-> ends, nodes |-> <<>>, strs |-> <<>>,
     name |-> "", aux |-> "", opt |-> <<>>, then |-> <<>>,
     from |-> pos, span |-> {}]

top == stack[Len(stack)]
At(fn, pc) == stack # <<>> /\ top.fn = fn /\ top.pc = pc
SetTop(f) == [stack EXCEPT ![Len(stack)] = f]
\* call: the caller continues at its frame f when the callee g returns
Call(f, g) == Append(SetTop(f), g)
Pop == SubSeq(stack, 1, Len(stack) - 1)
\* the value handed back by a return statement
Value(v, f) == [val |-> v, from |-> f.from, span |-> f.span, ends |-> f.ends]
NoValue == [val |-> <<>>, from |-> 0, span |-> {}, ends |-> {}]

Done == stack = <<>>

tok == peek(pos)

(***************************************************************************)
(* ROOT PARSER: Parser.parse                                               *)
(***************************************************************************)
\* the tree of parse(): {"type": "source", "items": items}
SourceNode(items) == [type |-> "source", items |-> items]

\* tok[0] == "EOF": break; return the source node
ParseBreak ==
    /\ At("parse", "start")
    /\ tok.kind = "EOF"
    /\ stack' = Pop
    /\ ret' = Value(SourceNode(top.nodes), top)
    /\ UNCHANGED <<code, tokens, pos, run, prev>>

\* tok[1] == "module": call parse_module
ParseCallModule ==
    /\ At("parse", "start")
    /\ tok.kind # "EOF"
    /\ tok.text = "module"
    /\ stack' = Call([top EXCEPT !.pc = "append"], Frame("parse_module", {}))
    /\ UNCHANGED <<code, tokens, pos, ret, run, prev>>

\* tok[1] == "class": call parse_class
ParseCallClass ==
    /\ At("parse", "start")
    /\ tok.kind # "EOF"
    /\ tok.text # "module"
    /\ tok.text = "class"
    /\ stack' = Call([top EXCEPT !.pc = "append"], Frame("parse_class", {}))
    /\ UNCHANGED <<code, tokens, pos, ret, run, prev>>

\* any other token at top level: self.eat()
ParseSkip ==
    /\ At("parse", "start")
    /\ tok.kind # "EOF"
    /\ tok.text \notin {"module", "class"}
    /\ pos' = eat(pos)
    /\ UNCHANGED <<code, tokens, stack, ret, run, prev>>

ParseAppendMut ==
    /\ At("parse", "append")
    /\ stack' = SetTop([top EXCEPT !.pc = "start",
                                   !.nodes = <<ret.val>> \o @,
                                   !.span = @ \cup ret.span])
    /\ UNCHANGED <<code, tokens, pos, ret, run, prev>>
\* items.append(<returned declaration>)
ParseAppend ==
    /\ At("parse", "append")
    /\ stack' = SetTop([top EXCEPT !.pc = "start",
                                   !.nodes = append(@, ret.val),
                                   !.span = @ \cup ret.span])
    /\ UNCHANGED <<code, tokens, pos, ret, run, prev>>

(***************************************************************************)
(* CLASS PARSING: Parser.parse_class                                       *)
(***************************************************************************)
ClassNode(f) == [type |-> "class", name |-> f.name, members |-> f.nodes]

\* self.eat()  # 'class'
ClassEatKeyword ==
    /\ At("parse_class", "start")
    /\ pos' = eat(pos)
    /\ stack' = SetTop([top EXCEPT !.pc = "name"])
    /\ UNCHANGED <<code, tokens, ret, run, prev>>

\* name = self.eat()[1]
ClassName ==
    /\ At("parse_class", "name")
    /\ pos' = eat(pos)
    /\ stack' = SetTop([top EXCEPT !.pc = "loop", !.name = tok.text,
                                   !.span = @ \cup {pos}])
    /\ UNCHANGED <<code, tokens, ret, run, prev>>

\* member loop: tok[1] == "function"
ClassCallFunction ==
    /\ At("parse_class", "loop")
    /\ ~(tok.text = "endclass" \/ tok.kind = "EOF")
    /\ tok.text = "function"
    /\ stack' = Call([top EXCEPT !.pc = "append"], Frame("parse_function", {}))
    /\ UNCHANGED <<code, tokens, pos, ret, run, prev>>

\* member loop: any other token is skipped
ClassSkip ==
    /\ At("parse_class", "loop")
    /\ ~(tok.text = "endclass" \/ tok.kind = "EOF")
    /\ tok.text # "function"
    /\ pos' = eat(pos)
    /\ UNCHANGED <<code, tokens, stack, ret, run, prev>>

\* members.append(<returned function>)
ClassAppend ==
    /\ At("parse_class", "append")
    /\ stack' = SetTop([top EXCEPT !.pc = "loop",
                                   !.nodes = append(@, ret.val),
                                   !.span = @ \cup ret.span])
    /\ UNCHANGED <<code, tokens, pos, ret, run, prev>>

\* break; if self.peek()[1] == "endclass": self.eat(); return the class node
ClassReturn ==
    /\ At("parse_class", "loop")
    /\ (tok.text = "endclass" \/ tok.kind = "EOF")
    /\ pos' = IF tok.text = "endclass" THEN eat(pos) ELSE pos
    /\ stack' = Pop
    /\ ret' = Value(ClassNode(top), top)
    /\ UNCHANGED <<code, tokens, run, prev>>

(***************************************************************************)
(* FUNCTION PARSING: Parser.parse_function                                 *)
(***************************************************************************)
FunctionNode(f, body) ==
    [type |-> "function", name |-> f.name, return_type |-> f.aux,
     args |-> f.strs, body |-> body]

\* self.eat()  # 'function'
FunctionEatKeyword ==
    /\ At("parse_function", "start")
    /\ pos' = eat(pos)
    /\ stack' = SetTop([top EXCEPT !.pc = "rtype"])
    /\ UNCHANGED <<code, tokens, ret, run, prev>>

\* return_type = self.eat()[1]
FunctionReturnType ==
    /\ At("parse_function", "rtype")
    /\ pos' = eat(pos)
    /\ stack' = SetTop([top EXCEPT !.pc = "name", !.aux = tok.text,
                                   !.span = @ \cup {pos}])
    /\ UNCHANGED <<code, tokens, ret, run, prev>>

\* name = self.eat()[1]
FunctionName ==
    /\ At("parse_function", "name")
    /\ pos' = eat(pos)
    /\ stack' = SetTop([top EXCEPT !.pc = "paren", !.name = tok.text,
                                   !.span = @ \cup {pos}])
    /\ UNCHANGED <<code, tokens, ret, run, prev>>

\* args = []; if self.peek()[1] == "(": self.eat()
FunctionParen ==
    /\ At("parse_function", "paren")
    /\ pos' = IF tok.text = "(" THEN eat(pos) ELSE pos
    /\ stack' = SetTop([top EXCEPT !.pc = IF tok.text = "(" THEN "args" ELSE "body"])
    /\ UNCHANGED <<code, tokens, ret, run, prev>>

\* one iteration of the argument loop
FunctionArg ==
    /\ At("parse_function", "args")
    /\ tok.text # ")" /\ tok.kind # "EOF"
    /\ pos' = eat(pos)
    /\ stack' = SetTop(IF tok.text # ","
                       THEN [top EXCEPT !.strs = append(@, tok.text),
                                        !.span = @ \cup {pos}]
                       ELSE top)
    /\ UNCHANGED <<code, tokens, ret, run, prev>>

\* the argument loop ends; self.eat()  # ')'
FunctionArgsEnd ==
    /\ At("parse_function", "args")
    /\ ~(tok.text # ")" /\ tok.kind # "EOF")
    /\ pos' = eat(pos)
    /\ stack' = SetTop([top EXCEPT !.pc = "body"])
    /\ UNCHANGED <<code, tokens, ret, run, prev>>

\* body = self.parse_block(end_tokens=("endfunction",))
FunctionCallBlock ==
    /\ At("parse_function", "body")
    /\ stack' = Call([top EXCEPT !.pc = "after_body"],
                     Frame("parse_block", {"endfunction"}))
    /\ UNCHANGED <<code, tokens, pos, ret, run, prev>>

\* return the function node
FunctionReturn ==
    /\ At("parse_function", "after_body")
    /\ stack' = Pop
    /\ ret' = Value(FunctionNode(top, ret.val),
                    [top EXCEPT !.span = @ \cup ret.span])
    /\ UNCHANGED <<code, tokens, pos, run, prev>>

(***************************************************************************)
(* MODULE PARSING: Parser.parse_module                                     *)
(***************************************************************************)
ModuleNode(f, body) ==
    [type |-> "module", name |-> f.name, ports |-> f.strs, body |-> body]

\* self.eat()  # 'module'
ModuleEatKeyword ==
    /\ At("parse_module", "start")
    /\ pos' = eat(pos)
    /\ stack' = SetTop([top EXCEPT !.pc = "name"])
    /\ UNCHANGED <<code, tokens, ret, run, prev>>

\* name = self.eat()[1]
ModuleName ==
    /\ At("parse_module", "name")
    /\ pos' = eat(pos)
    /\ stack' = SetTop([top EXCEPT !.pc = "paren", !.name = tok.text,
                                   !.span = @ \cup {pos}])
    /\ UNCHANGED <<code, tokens, ret, run, prev>>

\* ports = []; if self.peek()[1] == "(": self.eat()
ModuleParen ==
    /\ At("parse_module", "paren")
    /\ pos' = IF tok.text = "(" THEN eat(pos) ELSE pos
    /\ stack' = SetTop([top EXCEPT !.pc = IF tok.text = "(" THEN "ports" ELSE "semi"])
    /\ UNCHANGED <<code, tokens, ret, run, prev>>

\* one iteration of the port loop
ModulePort ==
    /\ At("parse_module", "ports")
    /\ tok.text # ")" /\ tok.kind # "EOF"
    /\ pos' = eat(pos)
    /\ stack' = SetTop(IF tok.text # ","
                       THEN [top EXCEPT !.strs = append(@, tok.text),
                                        !.span = @ \cup {pos}]
                       ELSE top)
    /\ UNCHANGED <<code, tokens, ret, run, prev>>

\* the port loop ends; self.eat()  # ')'
ModulePortsEnd ==
    /\ At("parse_module", "ports")
    /\ ~(tok.text # ")" /\ tok.kind # "EOF")
    /\ pos' = eat(pos)
    /\ stack' = SetTop([top EXCEPT !.pc = "semi"])
    /\ UNCHANGED <<code, tokens, ret, run, prev>>

\* if self.peek()[1] == ";": self.eat()
ModuleSemi ==
    /\ At("parse_module", "semi")
    /\ pos' = IF tok.text = ";" THEN eat(pos) ELSE pos
    /\ stack' = SetTop([top EXCEPT !.pc = "body"])
    /\ UNCHANGED <<code, tokens, ret, run, prev>>

\* body = self.parse_block(end_tokens=("endmodule",))
ModuleCallBlock ==
    /\ At("parse_module", "body")
    /\ stack' = Call([top EXCEPT !.pc = "after_body"],
                     Frame("parse_block", {"endmodule"}))
    /\ UNCHANGED <<code, tokens, pos, ret, run, prev>>

\* return the module node
ModuleReturn ==
    /\ At("parse_module", "after_body")
    /\ stack' = Pop
    /\ ret' = Value(ModuleNode(top, ret.val),
                    [top EXCEPT !.span = @ \cup ret.span])
    /\ UNCHANGED <<code, tokens, pos, run, prev>>

(***************************************************************************)
(* GENERIC BLOCK PARSING: Parser.parse_block                               *)
(***************************************************************************)
\* {"type": "block", "body": ...} of a begin/end region
NestedNodeMut(body) == [type |-> "block", body |-> <<>>]
NestedNode(body) == [type |-> "block", body |-> body]

SignalTypes == {"logic", "wire", "int"}
AlwaysKinds == {"always", "always_ff", "always_comb", "always_latch"}

\* the test that ends the loop of parse_block
BlockEnds(t, ends) == t.text \in ends \/ t.kind = "EOF"

BlockBreakMut ==
    /\ At("parse_block", "start")
    /\ BlockEnds(tok, top.ends)
    /\ stack' = Pop
    /\ ret' = Value(Append(top.nodes, [type |-> "statement", code |-> tok.text]),
                    [top EXCEPT !.span = @ \cup {pos}])
    /\ UNCHANGED <<code, tokens, pos, run, prev>>
\* tok[1] in end_tokens or tok[0] == "EOF": break; return elements
BlockBreak ==
    /\ At("parse_block", "start")
    /\ BlockEnds(tok, top.ends)
    /\ stack' = Pop
    /\ ret' = Value(top.nodes, top)
    /\ UNCHANGED <<code, tokens, pos, run, prev>>

\* tok[1] in ("logic", "wire", "int")
BlockCallSignal ==
    /\ At("parse_block", "start")
    /\ ~BlockEnds(tok, top.ends)
    /\ tok.text \in SignalTypes
    /\ stack' = Call([top EXCEPT !.pc = "append"], Frame("parse_signal", {}))
    /\ UNCHANGED <<code, tokens, pos, ret, run, prev>>

\* tok[1] == "function"
BlockCallFunction ==
    /\ At("parse_block", "start")
    /\ ~BlockEnds(tok, top.ends)
    /\ tok.text = "function"
    /\ stack' = Call([top EXCEPT !.pc = "append"], Frame("parse_function", {}))
    /\ UNCHANGED <<code, tokens, pos, ret, run, prev>>

\* tok[1] in ("always", "always_ff", "always_comb", "always_latch")
BlockCallAlways ==
    /\ At("parse_block", "start")
    /\ ~BlockEnds(tok, top.ends)
    /\ tok.text \in AlwaysKinds
    /\ stack' = Call([top EXCEPT !.pc = "append"], Frame("parse_always", {}))
    /\ UNCHANGED <<code, tokens, pos, ret, run, prev>>

\* tok[1] == "begin": self.eat(); self.parse_block(end_tokens=("end",))
BlockBegin ==
    /\ At("parse_block", "start")
    /\ ~BlockEnds(tok, top.ends)
    /\ tok.text = "begin"
    /\ pos' = eat(pos)
    /\ stack' = Call([top EXCEPT !.pc = "after_nested"],
                     [Frame("parse_block", {"end"}) EXCEPT !.from = eat(pos)])
    /\ UNCHANGED <<code, tokens, ret, run, prev>>

\* elements.append({"type": "block", ...}); if self.peek()[1] == "end": self.eat()
BlockNested ==
    /\ At("parse_block", "after_nested")
    /\ pos' = IF tok.text = "end" THEN eat(pos) ELSE pos
    /\ stack' = SetTop([top EXCEPT !.pc = "start",
                                   !.nodes = append(@, NestedNode(ret.val)),
                                   !.span = @ \cup ret.span])
    /\ UNCHANGED <<code, tokens, ret, run, prev>>

\* tok[1] == "if"
BlockCallIf ==
    /\ At("parse_block", "start")
    /\ ~BlockEnds(tok, top.ends)
    /\ tok.text = "if"
    /\ stack' = Call([top EXCEPT !.pc = "append"], Frame("parse_if", {}))
    /\ UNCHANGED <<code, tokens, pos, ret, run, prev>>

\* tok[1] == "case"
BlockCallCase ==
    /\ At("parse_block", "start")
    /\ ~BlockEnds(tok, top.ends)
    /\ tok.text = "case"
    /\ stack' = Call([top EXCEPT !.pc = "append"], Frame("parse_case", {}))
    /\ UNCHANGED <<code, tokens, pos, ret, run, prev>>

\* the tokens the if-chain of parse_block dispatches on
BlockDispatch ==
    SignalTypes \cup AlwaysKinds \cup {"function", "begin", "if", "case"}

\* no branch matched: elements.append(self.parse_statement())
BlockCallStatement ==
    /\ At("parse_block", "start")
    /\ ~BlockEnds(tok, top.ends)
    /\ tok.text \notin BlockDispatch
    /\ stack' = Call([top EXCEPT !.pc = "append"], Frame("parse_statement", {}))
    /\ UNCHANGED <<code, tokens, pos, ret, run, prev>>

\* elements.append(<returned node>); continue
BlockAppend ==
    /\ At("parse_block", "append")
    /\ stack' = SetTop([top EXCEPT !.pc = "start",
                                   !.nodes = append(@, ret.val),
                                   !.span = @ \cup ret.span])
    /\ UNCHANGED <<code, tokens, pos, ret, run, prev>>

(***************************************************************************)
(* SIGNAL PARSING: Parser.parse_signal                                     *)
(***************************************************************************)
SignalNodeMut(f) ==
    [type |-> "signal", data_type |-> f.aux, width |-> <<>>, names |-> f.strs]
SignalNode(f) ==
    [type |-> "signal", data_type |-> f.aux, width |-> f.opt, names |-> f.strs]

\* sig_type = self.eat()[1]; width = None
SignalType ==
    /\ At("parse_signal", "start")
    /\ pos' = eat(pos)
    /\ stack' = SetTop([top EXCEPT !.pc = "bracket", !.aux = tok.text,
                                   !.span = @ \cup {pos}])
    /\ UNCHANGED <<code, tokens, ret, run, prev>>

\* if self.peek()[1] == "[": w = []
SignalBracket ==
    /\ At("parse_signal", "bracket")
    /\ stack' = SetTop([top EXCEPT !.pc = IF tok.text = "[" THEN "width" ELSE "names"])
    /\ UNCHANGED <<code, tokens, pos, ret, run, prev>>

\* the test of the width loop
WidthContinues(t) == t.text # "]"

\* one iteration of the width loop: w.append(self.eat()[1])
SignalWidth ==
    /\ At("parse_signal", "width")
    /\ WidthContinues(tok)
    /\ pos' = eat(pos)
    /\ stack' = SetTop([top EXCEPT !.strs = append(@, tok.text),
                                   !.span = @ \cup {pos}])
    /\ UNCHANGED <<code, tokens, ret, run, prev>>

\* w.append(self.eat()[1])  # ']'; width = "".join(w); names = []
SignalWidthEnd ==
    /\ At("parse_signal", "width")
    /\ ~WidthContinues(tok)
    /\ pos' = eat(pos)
    /\ stack' = SetTop([top EXCEPT !.pc = "names",
                                   !.opt = <<join("", append(top.strs, tok.text))>>,
                                   !.strs = <<>>,
                                   !.span = @ \cup {pos}])
    /\ UNCHANGED <<code, tokens, ret, run, prev>>

\* one iteration of the name loop
SignalName ==
    /\ At("parse_signal", "names")
    /\ tok.text # ";" /\ tok.kind # "EOF"
    /\ pos' = eat(pos)
    /\ stack' = SetTop(IF tok.text # ","
                       THEN [top EXCEPT !.strs = append(@, tok.text),
                                        !.span = @ \cup {pos}]
                       ELSE top)
    /\ UNCHANGED <<code, tokens, ret, run, prev>>

\* the name loop ends; if self.peek()[1] == ";": self.eat(); return the node
SignalReturn ==
    /\ At("parse_signal", "names")
    /\ ~(tok.text # ";" /\ tok.kind # "EOF")
    /\ pos' = IF tok.text = ";" THEN eat(pos) ELSE pos
    /\ stack' = Pop
    /\ ret' = Value(SignalNode(top), top)
    /\ UNCHANGED <<code, tokens, run, prev>>

(***************************************************************************)
(* ALWAYS BLOCK PARSING: Parser.parse_always                               *)
(***************************************************************************)
AlwaysNode(f, body) ==
    [type |-> "always", kind |-> f.aux, sensitivity |-> f.opt, body |-> body]

\* kind = self.eat()[1]; sensitivity = None
AlwaysKind ==
    /\ At("parse_always", "start")
    /\ pos' = eat(pos)
    /\ stack' = SetTop([top EXCEPT !.pc = "at", !.aux = tok.text,
                                   !.span = @ \cup {pos}])
    /\ UNCHANGED <<code, tokens, ret, run, prev>>

\* if self.peek()[1] == "@": s = []
AlwaysAt ==
    /\ At("parse_always", "at")
    /\ stack' = SetTop([top EXCEPT !.pc = IF tok.text = "@" THEN "sens" ELSE "body"])
    /\ UNCHANGED <<code, tokens, pos, ret, run, prev>>

\* one iteration of the sensitivity loop: s.append(self.eat()[1])
AlwaysSens ==
    /\ At("parse_always", "sens")
    /\ tok.text # ")" /\ tok.kind # "EOF"
    /\ pos' = eat(pos)
    /\ stack' = SetTop([top EXCEPT !.strs = append(@, tok.text),
                                   !.span = @ \cup {pos}])
    /\ UNCHANGED <<code, tokens, ret, run, prev>>

\* s.append(self.eat()[1])  # ')'; sensitivity = " ".join(s)
AlwaysSensEnd ==
    /\ At("parse_always", "sens")
    /\ ~(tok.text # ")" /\ tok.kind # "EOF")
    /\ pos' = eat(pos)
    /\ stack' = SetTop([top EXCEPT !.pc = "body",
                                   !.opt = <<join(" ", append(top.strs, tok.text))>>,
                                   !.strs = <<>>,
                                   !.span = @ \cup {pos}])
    /\ UNCHANGED <<code, tokens, ret, run, prev>>

\* the end_tokens of the body of a process block: the default of parse_block
AlwaysEnds == {"end"}

\* body = self.parse_block()
AlwaysCallBlock ==
    /\ At("parse_always", "body")
    /\ stack' = Call([top EXCEPT !.pc = "after_body"],
                     Frame("parse_block", AlwaysEnds))
    /\ UNCHANGED <<code, tokens, pos, ret, run, prev>>

\* return the always node
AlwaysReturn ==
    /\ At("parse_always", "after_body")
    /\ stack' = Pop
    /\ ret' = Value(AlwaysNode(top, ret.val),
                    [top EXCEPT !.span = @ \cup ret.span])
    /\ UNCHANGED <<code, tokens, pos, run, prev>>

(***************************************************************************)
(* IF / ELSE PARSING: Parser.parse_if                                      *)
(***************************************************************************)
IfNode(f, else_block) ==
    [type |-> "if", cond |-> join("", f.strs), then |-> f.then,
     else |-> else_block]

\* self.eat()  # 'if'; cond = []
IfEatKeyword ==
    /\ At("parse_if", "start")
    /\ pos' = eat(pos)
    /\ stack' = SetTop([top EXCEPT !.pc = "paren"])
    /\ UNCHANGED <<code, tokens, ret, run, prev>>

\* if self.peek()[1] == "(": self.eat()
IfParen ==
    /\ At("parse_if", "paren")
    /\ pos' = IF tok.text = "(" THEN eat(pos) ELSE pos
    /\ stack' = SetTop([top EXCEPT !.pc = IF tok.text = "(" THEN "cond" ELSE "then"])
    /\ UNCHANGED <<code, tokens, ret, run, prev>>

\* one iteration of the condition loop: cond.append(self.eat()[1])
IfCond ==
    /\ At("parse_if", "cond")
    /\ tok.text # ")" /\ tok.kind # "EOF"
    /\ pos' = eat(pos)
    /\ stack' = SetTop([top EXCEPT !.strs = append(@, tok.text),
                                   !.span = @ \cup {pos}])
    /\ UNCHANGED <<code, tokens, ret, run, prev>>

\* the condition loop ends; self.eat()  # ')'
IfCondEnd ==
    /\ At("parse_if", "cond")
    /\ ~(tok.text # ")" /\ tok.kind # "EOF")
    /\ pos' = eat(pos)
    /\ stack' = SetTop([top EXCEPT !.pc = "then"])
    /\ UNCHANGED <<code, tokens, ret, run, prev>>

\* then_block = self.parse_block()
IfCallThen ==
    /\ At("parse_if", "then")
    /\ stack' = Call([top EXCEPT !.pc = "after_then"],
                     Frame("parse_block", {"end"}))
    /\ UNCHANGED <<code, tokens, pos, ret, run, prev>>

\* else_block = None; if self.peek()[1] == "else": self.eat(); self.parse_block()
IfAfterThen ==
    /\ At("parse_if", "after_then")
    /\ pos' = IF tok.text = "else" THEN eat(pos) ELSE pos
    /\ LET f == [top EXCEPT !.then = ret.val, !.span = @ \cup ret.span]
       IN  stack' = IF tok.text = "else"
                    THEN Call([f EXCEPT !.pc = "after_else"],
                              [Frame("parse_block", {"end"}) EXCEPT !.from = eat(pos)])
                    ELSE SetTop([f EXCEPT !.pc = "return"])
    /\ UNCHANGED <<code, tokens, ret, run, prev>>

\* else_block = <returned block> when the else branch was taken; return the node
IfReturn ==
    /\ stack # <<>>
    /\ top.fn = "parse_if"
    /\ top.pc \in {"after_else", "return"}
    /\ stack' = Pop
    /\ ret' = IF top.pc = "after_else"
              THEN Value(IfNode(top, <<ret.val>>),
                         [top EXCEPT !.span = @ \cup ret.span])
              ELSE Value(IfNode(top, <<>>), top)
    /\ UNCHANGED <<code, tokens, pos, run, prev>>

(***************************************************************************)
(* CASE PARSING: Parser.parse_case                                         *)
(***************************************************************************)
CaseNode(f, body) == [type |-> "case", expr |-> join("", f.strs), body |-> body]

\* self.eat()  # 'case'; expr = []
CaseEatKeyword ==
    /\ At("parse_case", "start")
    /\ pos' = eat(pos)
    /\ stack' = SetTop([top EXCEPT !.pc = "expr"])
    /\ UNCHANGED <<code, tokens, ret, run, prev>>

\* the test of the selector loop: no token has the text "\n"
ExprContinues(t) == t.text # "\n" /\ t.kind # "EOF"

\* one iteration of the selector loop: expr.append(self.eat()[1])
CaseExpr ==
    /\ At("parse_case", "expr")
    /\ ExprContinues(tok)
    /\ pos' = eat(pos)
    /\ stack' = SetTop([top EXCEPT !.strs = append(@, tok.text),
                                   !.span = @ \cup {pos}])
    /\ UNCHANGED <<code, tokens, ret, run, prev>>

\* the selector loop ends; body = self.parse_block(end_tokens=("endcase",))
CaseCallBlock ==
    /\ At("parse_case", "expr")
    /\ ~ExprContinues(tok)
    /\ stack' = Call([top EXCEPT !.pc = "after_body"],
                     Frame("parse_block", {"endcase"}))
    /\ UNCHANGED <<code, tokens, pos, ret, run, prev>>

\* if self.peek()[1] == "endcase": self.eat(); return the case node
CaseReturn ==
    /\ At("parse_case", "after_body")
    /\ pos' = IF tok.text = "endcase" THEN eat(pos) ELSE pos
    /\ stack' = Pop
    /\ ret' = Value(CaseNode(top, ret.val),
                    [top EXCEPT !.span = @ \cup ret.span])
    /\ UNCHANGED <<code, tokens, run, prev>>

(***************************************************************************)
(* GENERIC STATEMENT PARSING: Parser.parse_statement                       *)
(***************************************************************************)
StatementNode(f) == [type |-> "statement", code |-> join(" ", f.strs)]

\* the texts that stop the accumulation of a generic statement
StatementStops == {";", "end", "begin", "if", "case"}

\* one iteration of the statement loop: stmt.append(self.eat()[1])
StatementToken ==
    /\ At("parse_statement", "start")
    /\ tok.text \notin StatementStops /\ tok.kind # "EOF"
    /\ pos' = eat(pos)
    /\ stack' = SetTop([top EXCEPT !.strs = append(@, tok.text),
                                   !.span = @ \cup {pos}])
    /\ UNCHANGED <<code, tokens, ret, run, prev>>

\* the loop ends; if self.peek()[1] == ";": self.eat(); return the node
StatementReturn ==
    /\ At("parse_statement", "start")
    /\ ~(tok.text \notin StatementStops /\ tok.kind # "EOF")
    /\ pos' = IF tok.text = ";" THEN eat(pos) ELSE pos
    /\ stack' = Pop
    /\ ret' = Value(StatementNode(top), top)
    /\ UNCHANGED <<code, tokens, run, prev>>

(***************************************************************************)
(* Inputs.  An input is the source text split into the lexemes that        *)
(* TOKEN_REGEX.finditer yields on it.                                      *)
(***************************************************************************)
\* lexemes of the exhaustively enumerated inputs
Vocab ==
    {"module", "endmodule", "class", "endclass", "function", "endfunction",
     "always", "begin", "end", "if", "else", "case", "endcase", "logic",
     "(", ")", "[", "]", ";", ",", "@", "x"}

\* all sequences over S of length at most n
SeqsUpTo(S, n) == UNION {[1..k -> S] : k \in 0..n}

Headers ==
    {<<"module", "m", ";">>,
     <<"module", "m", "(", "input", "a", ",", "output", "b", ")", ";">>}

Tails == {<<"endmodule">>, <<>>}

\* module m; logic [7:0] a, b;
SignalBody == <<"logic", "[", "7", ":", "0", "]", "a", ",", "b", ";">>
\* always_ff @(posedge clk) if (rst) a <= 0;
AlwaysIfBody ==
    <<"always_ff", "@", "(", "posedge", "clk", ")",
      "if", "(", "rst", ")", "a", "<", "=", "0", ";">>
\* if (c) s1; else s2;
IfElseBody == <<"if", "(", "c", ")", "s1", ";", "else", "s2", ";">>
\* if (c) begin s1; end else begin s2; end
IfElseBeginBody ==
    <<"if", "(", "c", ")", "begin", "s1", ";", "end",
      "else", "begin", "s2", ";", "end">>
\* case (s) a: x; endcase y;
CaseBody ==
    <<"case", "(", "s", ")", "a", ":", "x", ";", "endcase", "y", ";">>
\* function void f(int x); x; endfunction
FunctionBody ==
    <<"function", "void", "f", "(", "int", "x", ")", ";", "x", ";", "endfunction">>
\* begin x; end y = 0;
BeginBody == <<"begin", "x", ";", "end", "y", "=", "0", ";">>

\* always [@(a)] begin [x;] if (c) logic a; end
NestBodies ==
    {<<k>> \o s \o <<"begin">> \o p \o
        <<"if", "(", "c", ")", "logic", "a", ";", "end">> :
        k \in {"always", "always_comb"},
        s \in {<<>>, <<"@", "(", "a", ")">>},
        p \in {<<>>, <<"x", ";">>}}

\* if ((a) & b) x;
ParenIfBody == <<"if", "(", "(", "a", ")", "&", "b", ")", "x", ";">>

\* <type> [ [7:0] ] a [, b] ;  with the Signal node each text stands for
SignalCases ==
    {[text |-> <<t>> \o w.text \o n.text \o <<";">>,
      node |-> [type |-> "signal", data_type |-> t, width |-> w.width,
                names |-> n.names]] :
        t \in {"logic", "wire", "int"},
        w \in {[text |-> <<>>, width |-> <<>>],
               [text |-> <<"[", "7", ":", "0", "]">>, width |-> <<"[7:0]">>]},
        n \in {[text |-> <<"a">>, names |-> <<"a">>],
               [text |-> <<"a", ",", "b">>, names |-> <<"a", "b">>]}}
SignalBodies == {c.text : c \in SignalCases}

Bodies ==
    {<<>>, SignalBody, AlwaysIfBody, IfElseBody, IfElseBeginBody, CaseBody,
     FunctionBody, BeginBody, ParenIfBody} \cup NestBodies \cup SignalBodies

\* well-formed modules, with and without their endmodule
ModuleInputs == {h \o b \o t : h \in Headers, b \in Bodies, t \in Tails}

\* class c extends base; function void f(int x); x; endfunction endclass
ClassInput ==
    <<"class", "c", "extends", "base", ";"," ", "// c", "#">>
        \o FunctionBody \o <<"endclass">>

\* arbitrary short inputs, alone and as the body of a module
ShortInputs ==
    {h \o s : h \in {<<>>, <<"module", "m", ";">>}, s \in SeqsUpTo(Vocab, MaxLen)}

\* malformed and truncated texts
GarbledInputs ==
    {<<"module", "m", ";", "logic", "endmodule", ";", "endmodule">>,
     <<"module", "m", ";", "begin", "logic", "a", "end", ";", "end", "endmodule">>,
     <<"module", "m", ";", "logic", "[", "7", ":", "0", "a", ";", "endmodule">>,
     <<"module", "m", ";", "x", ";", "end", "endmodule">>,
     <<"module", "m", ";", "endmodul">>,
     <<"module", "m", "(", "input", "a">>,
     <<"class", "c", "function", "void", "f", "(", "int", "x">>,
     <<"module", "m", ";", "always", "@", "(", "a">>,
     <<"module", "m", ";", "if", "(", "c">>}

\* class d; function void f(int x); x; endfunction endclass
PlainClassInput ==
    <<"class", "d", ";">> \o FunctionBody \o <<"endclass">>

\* texts with strings, sized numbers, comments, blanks and stray characters
LexInputs ==
    {<<" ">>, <<"#", "// c", "$">>,
     <<"module", " ", "m", ";", "/* c */", "x", "=", "\"s\"", "+", "8'hFF",
       "#", ";", "EOF", ";", "endmodule">>}

\* module <n>; <b> endmodule
ModuleText(n, b) == <<"module", n, ";">> \o b \o <<"endmodule">>

\* bodies of signals and statements only
PlainBodies == {<<>>, SignalBody, <<"y", "=", "0", ";">>}
\* bodies holding a process block, with and without begin/end
ProcessBodies ==
    {<<"always", "@", "(", "a", ")", "y", "=", "0", ";">>,
     <<"always_comb", "begin", "y", "=", "0", ";", "end">>}

\* two and three consecutive well-formed modules
MultiModuleInputs ==
    {ModuleText("m1", b1) \o ModuleText("m2", b2) :
        b1 \in PlainBodies \cup ProcessBodies, b2 \in PlainBodies \cup ProcessBodies}
    \cup {ModuleText("m1", b) \o ModuleText("m2", b) \o ModuleText("m3", <<>>) :
             b \in PlainBodies \cup ProcessBodies}

Inputs ==
    ShortInputs \cup ModuleInputs \cup GarbledInputs \cup LexInputs
        \cup MultiModuleInputs \cup {ClassInput, PlainClassInput}

(***************************************************************************)
(* Specification                                                           *)
(***************************************************************************)
\* Parser.__init__(code) followed by the call of parse()
Init ==
    /\ code \in Inputs
    /\ tokens = tokenize(code)
    /\ pos = 0
    /\ stack = <<Frame("parse", {})>>
    /\ ret = NoValue
    /\ run = 1
    /\ prev = NoValue

\* a second Parser on the same text with its final endmodule deleted; the
\* tree of the first parse is kept in prev
Restart ==
    /\ Done
    /\ run = 1
    /\ code # <<>>
    /\ code[Len(code)] = "endmodule"
    /\ code' = SubSeq(code, 1, Len(code) - 1)
    /\ tokens' = tokenize(code')
    /\ pos' = 0
    /\ stack' = <<[Frame("parse", {}) EXCEPT !.from = 0]>>
    /\ prev' = ret
    /\ ret' = NoValue
    /\ run' = 2

Next ==
    \/ ParseBreak \/ ParseCallModule \/ ParseCallClass \/ ParseSkip
    \/ ParseAppend
    \/ ClassEatKeyword \/ ClassName \/ ClassCallFunction \/ ClassSkip
    \/ ClassAppend \/ ClassReturn
    \/ FunctionEatKeyword \/ FunctionReturnType \/ FunctionName
    \/ FunctionParen \/ FunctionArg \/ FunctionArgsEnd \/ FunctionCallBlock
    \/ FunctionReturn
    \/ ModuleEatKeyword \/ ModuleName \/ ModuleParen \/ ModulePort
    \/ ModulePortsEnd \/ ModuleSemi \/ ModuleCallBlock \/ ModuleReturn
    \/ BlockBreak \/ BlockCallSignal \/ BlockCallFunction \/ BlockCallAlways
    \/ BlockBegin \/ BlockNested \/ BlockCallIf \/ BlockCallCase
    \/ BlockCallStatement \/ BlockAppend
    \/ SignalType \/ SignalBracket \/ SignalWidth \/ SignalWidthEnd
    \/ SignalName \/ SignalReturn
    \/ AlwaysKind \/ AlwaysAt \/ AlwaysSens \/ AlwaysSensEnd
    \/ AlwaysCallBlock \/ AlwaysReturn
    \/ IfEatKeyword \/ IfParen \/ IfCond \/ IfCondEnd \/ IfCallThen
    \/ IfAfterThen \/ IfReturn
    \/ CaseEatKeyword \/ CaseExpr \/ CaseCallBlock \/ CaseReturn
    \/ StatementToken \/ StatementReturn
    \/ Restart

Spec == Init /\ [][Next]_vars

\* a sequential program always takes its next step
FairSpec == Spec /\ WF_vars(Next)

TypeOK ==
    /\ pos \in 0..Len(tokens)
    /\ run \in {1, 2}

(***************************************************************************)
(* Properties                                                              *)
(***************************************************************************)
\* the first parse of the text has returned
Parsed == Done /\ run = 1
\* the first top-level node of the returned tree
FirstItem == ret.val.items[1]

\* C1: every parse terminates and returns a source node with the cursor
\* within the token count (checked under FairSpec)
C1_Totality == <>(Done /\ ret.val.type = "source" /\ pos <= Len(tokens))

\* C2: the cursor stays within 0..len(tokens), never decreases during a
\* parse and grows by at most one per step (every step holds at most one eat)
C2_Cursor ==
    /\ pos \in 0..Len(tokens)
    /\ [][run' = run =>
            (pos' >= pos /\ pos' <= pos + 1 /\ pos' \in 0..Len(tokens'))]_vars
\* eat() has been called repeatedly on an exhausted cursor
C2_Witness ==
    /\ At("parse_signal", "width")
    /\ pos = Len(tokens)
    /\ Len(top.strs) > Len(tokens)

\* the terminator keyword of each declaration parser
Terminator ==
    [parse_class |-> "endclass", parse_module |-> "endmodule",
     parse_function |-> "endfunction"]
\* the body of a declaration has just stopped
BodyStopped ==
    \/ At("parse_module", "after_body")
    \/ At("parse_function", "after_body")
    \/ At("parse_class", "loop") /\ (tok.text = "endclass" \/ tok.kind = "EOF")

\* C3: a declaration parser whose body stopped returns with the cursor just
\* after its terminator when the terminator is at the cursor, and with the
\* cursor unmoved otherwise
C3_TerminatorConsumed ==
    [][BodyStopped =>
         /\ stack' = Pop
         /\ pos' = IF tok.text = Terminator[top.fn] THEN pos + 1 ELSE pos]_vars

\* a call of parse_block has just returned to its caller
AfterBlock ==
    /\ stack # <<>>
    /\ top.pc \in {"after_body", "after_nested", "after_then", "after_else"}
\* the node types a block may hold
BlockNodeTypes ==
    {"signal", "function", "always", "block", "if", "case", "statement"}

\* C4 as stated: when a block stopped at a terminator of its end_tokens, no
\* text stored in its nodes equals the terminator's text; a block that
\* stopped at end-of-stream holds no synthesized node
C4_TerminatorTextAbsent ==
    AfterBlock =>
        /\ tok.text \in ret.ends => \A p \in ret.span : peek(p).text # tok.text
        /\ tok.kind = "EOF" =>
              /\ Len(ret.val) <= pos - ret.from
              /\ \A i \in 1..Len(ret.val) : ret.val[i].type \in BlockNodeTypes

\* C4 amended: when a block stopped at a terminator of its end_tokens, that
\* terminator token itself is not among the tokens stored in its nodes (all
\* of them precede it); a block that stopped at end-of-stream holds no
\* synthesized node: every node took at least one token
C4_TerminatorTokenAbsent ==
    AfterBlock =>
        /\ tok.text \in ret.ends => \A p \in ret.span : p < pos
        /\ tok.kind = "EOF" =>
              /\ Len(ret.val) <= pos - ret.from
              /\ \A i \in 1..Len(ret.val) : ret.val[i].type \in BlockNodeTypes
\* a non-empty block has stopped at a real terminator; another has stopped
\* at end-of-stream
C4_Witness ==
    /\ AfterBlock
    /\ tok.text \in ret.ends
    /\ ret.span # {}
    /\ Len(ret.val) > 1
C4_WitnessEOF ==
    /\ AfterBlock
    /\ tok.kind = "EOF"
    /\ Len(ret.val) > 1

\* C5: deleting the final endmodule of a well-formed module leaves the
\* Module node (name, ports, body at every depth) unchanged
C5_TruncationTolerance ==
    (Done /\ run = 2 /\ code \o <<"endmodule">> \in ModuleInputs)
        => ret.val.items = prev.val.items

\* the module texts built on one body
ModulesOf(bodies) == {h \o b \o t : h \in Headers, b \in bodies, t \in Tails}
\* the same, closed by endmodule
ClosedModulesOf(bodies) == {h \o b \o <<"endmodule">> : h \in Headers, b \in bodies}
\* a generic Statement node with the given code
Stmt(c) == [type |-> "statement", code |-> c]

\* C6: an `else` after the then-branch is consumed by parse_if: the If node
\* has a non-null else block with the else-branch nodes and `then` holds only
\* the then-branch nodes
C6_ElseBranch ==
    (Parsed /\ code \in ModulesOf({IfElseBody, IfElseBeginBody})) =>
        LET n == FirstItem.body[1]
        IN  /\ n.type = "if"
            /\ n.else # <<>>
            /\ Len(n.then) = 1
            /\ Len(n.else[1]) = 1

\* the text holds the statement `x;` ahead of the if
HasPre == \E i \in 1..Len(code) : code[i] = "x"
\* the If node of `if (c) logic a;`
NestedIf ==
    [type |-> "if", cond |-> "c", else |-> <<>>,
     then |-> <<[type |-> "signal", data_type |-> "logic", width |-> <<>>,
                 names |-> <<"a">>]>>]

\* C7: module > process block > begin..end > if > signal yields
\* Module.body -> Always.body -> NestedBlock.body -> If.then -> Signal at
\* exactly that depth, siblings in source order
C7_NestingDepth ==
    (Parsed /\ code \in ModulesOf(NestBodies)) =>
        /\ Len(ret.val.items) = 1
        /\ FirstItem.type = "module"
        /\ Len(FirstItem.body) = 1
        /\ LET a == FirstItem.body[1]
           IN  /\ a.type = "always"
               /\ Len(a.body) >= 1
               /\ a.body[1].type = "block"
               /\ a.body[1].body =
                     (IF HasPre THEN <<Stmt("x")>> ELSE <<>>) \o <<NestedIf>>
               /\ \A i \in 2..Len(a.body) : a.body[i].type = "statement"
\* a nested module with a sibling ahead of the if has been parsed
C7_Witness ==
    /\ Parsed
    /\ code \in ClosedModulesOf(NestBodies)
    /\ HasPre
    /\ FirstItem.body[1].body[1].body[2].then[1].type = "signal"

\* C8: a Case node holds only the selector in expr, the arms up to endcase
\* in body, and the tokens after endcase go to the enclosing block
C8_CaseNode ==
    (Parsed /\ code \in ModulesOf({CaseBody})) =>
        LET b == FirstItem.body
        IN  /\ b[1].type = "case"
            /\ b[1].expr = "(s)"
            /\ b[1].body # <<>>
            /\ Len(b) = 2
            /\ b[2] = Stmt("y")

\* C9: always_ff @(posedge clk) if (rst) a <= 0; endmodule gives one Always
\* holding one If with cond rst whose then holds exactly one Statement
C9_AlwaysIf ==
    (Parsed /\ code \in ClosedModulesOf({AlwaysIfBody})) =>
        LET b == FirstItem.body
        IN  /\ Len(b) = 1
            /\ b[1].type = "always"
            /\ Len(b[1].body) = 1
            /\ b[1].body[1].type = "if"
            /\ b[1].body[1].cond = "rst"
            /\ Len(b[1].body[1].then) = 1
            /\ b[1].body[1].then[1].type = "statement"

\* C10: function void f(int x); x; endfunction gives return_type void,
\* name f, args int x and a body of exactly the Statement x
C10_FunctionBody ==
    (Parsed /\ code \in ClosedModulesOf({FunctionBody}) \cup {ClassInput}) =>
        LET fn == IF code = ClassInput THEN FirstItem.members[1]
                  ELSE FirstItem.body[1]
        IN  /\ fn.type = "function"
            /\ fn.return_type = "void"
            /\ fn.name = "f"
            /\ fn.args = <<"int", "x">>
            /\ fn.body = <<Stmt("x")>>

\* C11: a Class node carries an `extends` field: the superclass name when
\* the class is declared with `extends`, null otherwise
C11_ClassExtends ==
    (Parsed /\ code \in {ClassInput, PlainClassInput}) =>
        /\ FirstItem.type = "class"
        /\ "extends" \in DOMAIN FirstItem
        /\ FirstItem.extends = IF code = ClassInput THEN <<"base">> ELSE <<>>

\* the token a read at the cursor p must yield
TokenAt(p) == IF p < Len(tokens) THEN tokens[p + 1] ELSE EOFTok
\* the top activation stays the same one across the step
SameActivation == stack # <<>> /\ Len(stack') = Len(stack)

\* C12: within a parse the token sequence never changes; the cursor moves
\* only by one and only while it is not exhausted; a text stored by a step
\* is the text of the token at the cursor before the step, the end-of-stream
\* text once the cursor is exhausted
C12_PeekEat ==
    [][run' = run =>
        /\ tokens' = tokens
        /\ pos' # pos => (pos < Len(tokens) /\ pos' = pos + 1)
        /\ pos = Len(tokens) => (pos' = pos /\ tok = EOFTok)
        /\ (SameActivation /\ Len(top'.strs) = Len(top.strs) + 1) =>
              top'.strs[Len(top'.strs)] = TokenAt(pos).text
        /\ (SameActivation /\ top'.name # top.name) =>
              top'.name = TokenAt(pos).text
        /\ (SameActivation /\ top'.aux # top.aux) =>
              top'.aux = TokenAt(pos).text]_vars
\* two eat() calls on the exhausted cursor have both returned end-of-stream
C12_Witness ==
    /\ At("parse_signal", "width")
    /\ pos = Len(tokens)
    /\ Len(top.strs) >= 3
    /\ top.strs[Len(top.strs)] = "EOF"
    /\ top.strs[Len(top.strs) - 1] = "EOF"

\* C13: when parse() has returned, every text stored in the tree comes from
\* a real token of the stream, never from the end-of-stream token
C13_RealTokens ==
    Done => \A p \in ret.span : p < Len(tokens) /\ tokens[p + 1].kind # "EOF"

\* C14: the root loop dispatches only on module and class; any other token
\* is advanced past and adds nothing; the items are Module and Class nodes
\* appended in the order their keywords were met
C14_TopLevel ==
    [][/\ (At("parse", "start") /\ tok.kind # "EOF"
              /\ tok.text \notin {"module", "class"}) =>
             (pos' = pos + 1 /\ stack' = stack /\ ret' = ret)
       /\ At("parse", "append") =>
             /\ ret.val.type \in {"module", "class"}
             /\ ret.val.type = TokenAt(ret.from).text
             /\ top'.nodes = Append(top.nodes, ret.val)
       /\ (At("parse", "start") /\ stack' = Pop) =>
             /\ ret'.val.items = top.nodes
             /\ \A i \in 1..Len(top.nodes) :
                   top.nodes[i].type \in {"module", "class"}]_vars
\* three declarations were appended and terminators were skipped between them
C14_Witness ==
    /\ Parsed
    /\ Len(ret.val.items) = 3
    /\ ret.val.items[3].name = "m3"

\* C15: the cond of `if ((a) & b) x;` is the text between the outermost
\* parentheses and the then-block starts after the matching `)`
C15_OuterParens ==
    (Parsed /\ code \in ModulesOf({ParenIfBody})) =>
        LET n == FirstItem.body[1]
        IN  /\ n.type = "if"
            /\ n.cond = "(a)&b"
            /\ Len(n.then) >= 1
            /\ n.then[1] = Stmt("x")

\* C16: when end-of-stream is met inside the width of a signal, parse_signal
\* stops accumulating the width (and goes on to return its node)
C16_UnclosedWidth ==
    [][(At("parse_signal", "width") /\ tok.kind = "EOF") =>
          (stack' = Pop \/ (SameActivation /\ top'.pc # "width"))]_vars

\* C17: `<type> [w] n1, n2;` gives data_type, width as the concatenated
\* tokens from `[` through `]` (null without `[`), the names without commas,
\* and consumes the `;`, so the Signal is the only node of the module body
C17_SignalNode ==
    Parsed =>
        \A c \in SignalCases, h \in Headers, t \in Tails :
            code = h \o c.text \o t => FirstItem.body = <<c.node>>
\* a signal with a width and two names has been parsed in a closed module
C17_Witness ==
    /\ Parsed
    /\ code = <<"module", "m", ";", "wire", "[", "7", ":", "0", "]",
                "a", ",", "b", ";", "endmodule">>
    /\ FirstItem.body[1].width = <<"[7:0]">>
    /\ FirstItem.body[1].names = <<"a", "b">>

\* the kinds of the tokens that stand for text
TokenKinds == {"KEYWORD", "IDENT", "NUMBER", "STRING", "SYMBOL"}

\* C18: the token sequence holds exactly one end-of-stream token, as its
\* last element; every other element has one of the five kinds, one per
\* lexeme that is neither skipped nor unrecognized
C18_OneEOF ==
    /\ Len(tokens) >= 1
    /\ tokens[Len(tokens)].kind = "EOF"
    /\ \A i \in 1..(Len(tokens) - 1) : tokens[i].kind \in TokenKinds
    /\ Len(tokens) =
          1 + Cardinality({i \in 1..Len(code) :
                              LastGroup(code[i]) \notin {"SKIP", "OTHER"}})
\* a text with comments, blanks, stray characters, a string, a sized number
\* and an identifier spelled EOF has been tokenized
C18_Witness ==
    /\ Len(tokens) < Len(code)
    /\ \E i \in 1..Len(tokens) : tokens[i].kind = "STRING"
    /\ \E i \in 1..Len(tokens) : tokens[i] = [kind |-> "NUMBER", text |-> "8'hFF"]
    /\ \E i \in 1..Len(tokens) : tokens[i] = [kind |-> "IDENT", text |-> "EOF"]

\* a step that stays inside the same loop of the same activation
LoopStep ==
    /\ stack # <<>>
    /\ Len(stack') = Len(stack)
    /\ top'.fn = top.fn
    /\ top'.pc = top.pc

\* C19: every loop iteration that does not leave its loop advances the
\* cursor; an iteration of the root, member or block loop that called a
\* parser (parse_statement included) has consumed at least one token
C19_LoopProgress ==
    [][/\ LoopStep => pos' > pos
       /\ (stack # <<>> /\ top.pc = "append") => pos > ret.from]_vars

\* the cursor of the second `module` keyword of the text
SecondModuleAt ==
    CHOOSE i \in 1..(Len(tokens) - 1) :
        /\ tokens[i + 1].text = "module"
        /\ \A j \in 1..(i - 1) : tokens[j + 1].text # "module"
\* the names of the consecutive modules
ModuleNames == <<"m1", "m2", "m3">>

\* C20: k consecutive well-formed modules give exactly k Module nodes in
\* source order, and the first holds no token of a later module
C20_ConsecutiveModules ==
    (run = 1 /\ code \in MultiModuleInputs) =>
        /\ (At("parse", "append") /\ top.nodes = <<>>) =>
              \A p \in ret.span : p < SecondModuleAt
        /\ Done =>
              /\ Len(ret.val.items) = Cardinality({i \in 1..Len(code) : code[i] = "module"})
              /\ \A i \in 1..Len(ret.val.items) :
                    /\ ret.val.items[i].type = "module"
                    /\ ret.val.items[i].name = ModuleNames[i]
====
